---- MODULE Spec2Model ----
(***************************************************************************)
(* Job lifecycle of backend/main.py: the registry `downloads`, the set     *)
(* `cancel_downloads`, the lock `downloads_lock`, the route handlers that   *)
(* run one at a time on the event loop, and the background workers         *)
(* (perform_download), one thread per submission.                          *)
(*                                                                         *)
(* Strings are sequences of one-character strings; an error message is a   *)
(* sequence of words.  A job id f"dl_{ms}" is the pair <<"dl_", ms>>.      *)
(* The request fields url, client_ip and mac_address and the record field  *)
(* completed_at are stored and never read by the lifecycle: left out.      *)
(*                                                                         *)
(* The engine (yt_dlp) is the environment: it calls the progress hooks in  *)
(* order with in-progress and finished events, the downloaded bytes never  *)
(* falling within one item; an exception thrown by a hook ends the run     *)
(* with that exception; the run may raise a failure of its own at any      *)
(* point, and returns once the items it fetches are finished.  With        *)
(* ignoreerrors (a playlist) it logs an error for an item it cannot fetch  *)
(* and goes on; such an item is a None entry of its result.  Handlers      *)
(* are async functions without an await: each runs to its end on the       *)
(* event loop, except that cancel_download first waits for the lock.       *)
(*                                                                         *)
(* Spec is the whole lifecycle.  ListSpec is the handlers with the listing *)
(* (list_downloads changes nothing but its response) and the start of the  *)
(* workers.  FolderSpec runs the two folder-name helpers alone, on         *)
(* arguments drawn from bounded sets.                                      *)
(***************************************************************************)
EXTENDS Integers, Sequences, FiniteSets, TLC

\* ---------------------------------------------------------------- bounds
MaxTasks == 2      \* submissions accepted in one run of the model
MaxClock == 1      \* millisecond readings of datetime.now(): 0..MaxClock
MaxBytes == 1      \* size of one item, in bytes reported by the engine
MaxItems == 2      \* items of a playlist the engine goes through
MaxSkipped == 1    \* items of a playlist the engine cannot fetch

MaxOver == 2       \* characters by which a name may exceed the length limit
MaxFolders == 4    \* entries of download_path when the helpers are called alone

MaxFolderLen == 100

Tasks == 1..MaxTasks
Clock == 0..MaxClock

\* download_id = f"dl_{int(datetime.now().timestamp() * 1000)}"
DownloadId(ms) == <<"dl_", ms>>
Ids == {DownloadId(ms) : ms \in Clock}

NonTerminal == {"queued", "downloading", "cancelling"}
Terminal == {"completed", "cancelled", "error"}

None == <<"None">>

\* ------------------------------------------------------- error messages
CancelMsg == <<"Download", "cancelled", "by", "user">>
NetworkMsg == <<"Unable", "to", "download", "webpage">>
UploaderMsg == <<"Video", "Cancelled", "by", "uploader">>
\* str(KeyError(k)) is repr(k); k is "dl_id" for a job id
KeyErrorMsg(k) == <<"'", k, "'">>

\* what the engine itself may raise
EngineMsgs == {NetworkMsg, UploaderMsg}

\* str.lower() on the words the messages are made of
Lower(w) ==
    CASE w = "Download" -> "download"
      [] w = "Unable" -> "unable"
      [] w = "Video" -> "video"
      [] w = "Cancelled" -> "cancelled"
      [] w = "This" -> "this"
      [] OTHER -> w

\* "cancelled" in error_msg.lower()
is_cancelled(error_msg) ==
    \E i \in DOMAIN error_msg : Lower(error_msg[i]) = "cancelled"

\* what the engine logs for an item of a playlist it cannot fetch
UnavailableMsg == <<"Video", "unavailable">>
TerminatedMsg == <<"account", "has", "been", "terminated">>
NotAvailableMsg == <<"This", "video", "is", "not", "available">>
SkipMsgs == {UnavailableMsg, TerminatedMsg, NotAvailableMsg}

\* PlaylistLogger.error(msg), on len(self.failed):
\* 'unavailable' in msg.lower() or 'terminated' in msg.lower()
PlaylistLogger_error(failed, msg) ==
    IF \E i \in DOMAIN msg : Lower(msg[i]) \in {"unavailable", "terminated"}
    THEN failed + 1
    ELSE failed

\* ------------------------------------------------------------ folder names
InvalidChars == {"<", ">", ":", "\"", "/", "\\", "|", "?", "*"}

KeepInvalid(name) == name

ReplaceInvalid(name) ==
    [i \in DOMAIN name |-> IF name[i] \in InvalidChars THEN "_" ELSE name[i]]

RECURSIVE LStrip(_)
LStrip(name) ==
    IF name # <<>> /\ Head(name) \in {".", " "} THEN LStrip(Tail(name)) ELSE name

RECURSIVE RStrip(_)
RStrip(name) ==
    IF name # <<>> /\ name[Len(name)] \in {".", " "}
    THEN RStrip(SubSeq(name, 1, Len(name) - 1))
    ELSE name

sanitize_folder_name(name) ==
    LET stripped == RStrip(LStrip(ReplaceInvalid(name)))
    IN  IF Len(stripped) > MaxFolderLen
        THEN SubSeq(stripped, 1, MaxFolderLen)
        ELSE stripped

Digit(n) == <<"0", "1", "2", "3", "4", "5", "6", "7", "8", "9">>[n + 1]

\* str(counter)
RECURSIVE Decimal(_)
Decimal(n) == IF n < 10 THEN <<Digit(n)>> ELSE Decimal(n \div 10) \o <<Digit(n % 10)>>

\* f"{folder_name} ({counter})"
Numbered(folder_name, counter) ==
    folder_name \o <<" ", "(">> \o Decimal(counter) \o <<")">>

RECURSIVE ProbeFrom(_, _, _)
ProbeFrom(existing, folder_name, counter) ==
    IF Numbered(folder_name, counter) \notin existing
    THEN Numbered(folder_name, counter)
    ELSE ProbeFrom(existing, folder_name, counter + 1)

first_numbered(existing, folder_name) ==
    IF folder_name \notin existing THEN folder_name ELSE Numbered(folder_name, 2)

\* existing: the names of the entries of download_path
get_unique_folder_name(existing, folder_name) ==
    IF folder_name \notin existing
    THEN folder_name
    ELSE ProbeFrom(existing, folder_name, 2)

\* datetime.now().strftime("%Y-%m-%d"): every job of a run falls on one day
DateStr == <<"2", "0", "2", "6", "-", "0", "1", "-", "0", "1">>

\* f"{sanitized_title} [{date_str}]"
BaseFolderName(playlist_title) ==
    sanitize_folder_name(playlist_title) \o <<" ", "[">> \o DateStr \o <<"]">>

\* playlist titles the metadata probe may report (or folder_name of the request)
PlaylistTitles == {<<"M", "i", "x">>, <<"M", "i", "x", ".">>}

\* ------------------------------------------------------------------ state
VARIABLES
    now,               \* the millisecond the last submission read from the clock
    downloads,         \* the registry: job id -> record
    cancel_downloads,  \* ids requested for cancellation
    downloads_lock,    \* Free, or the thread that holds it
    loop,              \* the handler the event loop is inside, or None
    resp,              \* HTTP status code of the last response sent (0: none yet)
    ntasks,            \* background tasks scheduled so far
    task,              \* task -> the worker's arguments, position and locals
    folders,           \* names of the entries of download_path
    accepted,          \* history: ids whose cancel was accepted before any finished
                       \* event and whose job has not since been given a final status
    listing,           \* the ids of the last response of list_downloads, in order
    call               \* a call of a folder-name helper: arguments, result

vars == <<now, downloads, cancel_downloads, downloads_lock, loop, resp, ntasks,
          task, folders, accepted, listing, call>>

\* threads: the event loop and one worker per background task
Free == <<>>
EventLoop == <<"loop">>
Worker(w) == <<"worker", w>>

NoTask ==
    [pc |-> "unused", id |-> None, download_list |-> FALSE, err |-> None,
     escaped |-> FALSE, bytes |-> 0, items |-> 0, skipped |-> 0, failed |-> 0,
     folder |-> None]

NoCall ==
    [fn |-> "none", name |-> <<>>, existing |-> {}, returned |-> FALSE,
     result |-> <<>>]

\* the state after the module is loaded, but for the content of download_path
\* and the helper called
Loaded ==
    /\ now = 0
    /\ downloads = [d \in {} |-> None]
    /\ cancel_downloads = {}
    /\ downloads_lock = Free
    /\ loop = None
    /\ resp = 0
    /\ ntasks = 0
    /\ task = [w \in Tasks |-> NoTask]
    /\ accepted = {}
    /\ listing = <<>>

Init == Loaded /\ folders = {} /\ call = NoCall

\* ------------------------------------------------------------ the registry
\* the record download_youtube stores
NewRecord(created_at) ==
    [status |-> "queued", progress |-> 0, title |-> None, error |-> None,
     message |-> None, created_at |-> created_at]

\* downloads[d] = rec
Store(d, rec) ==
    [k \in DOMAIN downloads \cup {d} |-> IF k = d THEN rec ELSE downloads[k]]

\* del downloads[d]
Delete(d) == [k \in DOMAIN downloads \ {d} |-> downloads[k]]

\* the workers of job id d, and those whose engine has reported no finished item
WorkersOf(d) == {w \in Tasks : task[w].pc # "unused" /\ task[w].id = d}
Exited(w) == task[w].pc \in {"done", "crashed"}
\* the engine of worker w has not run to its end and has reported no finished item
NothingFinished(w) ==
    /\ task[w].pc \in {"queued", "start_locked", "probe", "mkdir", "engine", "hook",
                       "hook_locked"}
    /\ task[w].items = 0

\* -------------------------------------------------- handlers (event loop)
\* youtube_domains = ["youtube.com", "youtu.be"]; a URL is a sequence of parts
Urls == {<<"https://", "youtu.be", "/abc">>, <<"https://", "example.com", "/abc">>}

is_valid_youtube_url(url) ==
    \E i \in DOMAIN url : Lower(url[i]) \in {"youtube.com", "youtu.be"}

\* POST /download
\* ms: what datetime.now() reads, the millisecond of the last reading or a later one
download_youtube(url, download_list, ms) ==
    /\ loop = None
    /\ ntasks < MaxTasks
    /\ IF ~is_valid_youtube_url(url)
       THEN /\ resp' = 400
            /\ UNCHANGED <<now, downloads, ntasks, task, accepted>>
       ELSE LET download_id == DownloadId(ms)
            IN  /\ now' = ms
                /\ downloads' = Store(download_id, NewRecord(ms))
                /\ ntasks' = ntasks + 1
                /\ task' = [task EXCEPT ![ntasks + 1] =
                               [NoTask EXCEPT !.pc = "queued", !.id = download_id,
                                              !.download_list = download_list]]
                /\ accepted' = accepted \ {download_id}
                /\ resp' = 200
    /\ UNCHANGED <<listing, call>>
    /\ UNCHANGED <<cancel_downloads, downloads_lock, loop, folders>>

StatusCodeAlwaysFound(download_id) == 200

\* lines 188-191: the status code get_download_status answers with
StatusCode(download_id) == IF download_id \notin DOMAIN downloads THEN 404 ELSE 200

\* GET /downloads/{download_id}
get_download_status(download_id) ==
    /\ loop = None
    /\ resp' = StatusCode(download_id)
    /\ UNCHANGED <<listing, call>>
    /\ UNCHANGED <<now, downloads, cancel_downloads, downloads_lock, loop, ntasks,
                   task, folders, accepted>>

\* downloads.items(): a dict lists its keys in the order of their first
\* insertion, which is the order of the ids' milliseconds (the clock of the
\* submissions never goes back)
RECURSIVE ItemsFrom(_)
ItemsFrom(ms) ==
    IF ms > MaxClock THEN <<>>
    ELSE (IF DownloadId(ms) \in DOMAIN downloads THEN <<DownloadId(ms)>> ELSE <<>>)
             \o ItemsFrom(ms + 1)

natural_order(key_x, key_y) == key_x <= key_y

\* reverse=True: an item stays before one whose key is not greater
reverse_order(key_x, key_y) == key_x >= key_y

\* sorted() is stable: x goes behind every item that stays before it
RECURSIVE sorted_insert(_, _)
sorted_insert(items, x) ==
    IF items = <<>> THEN <<x>>
    ELSE IF reverse_order(downloads[Head(items)].created_at, downloads[x].created_at)
         THEN <<Head(items)>> \o sorted_insert(Tail(items), x)
         ELSE <<x>> \o items

RECURSIVE sorted(_)
sorted(items) ==
    IF items = <<>> THEN <<>>
    ELSE sorted_insert(sorted(SubSeq(items, 1, Len(items) - 1)), items[Len(items)])

\* lines 198-202
sorted_downloads == sorted(ItemsFrom(0))

\* GET /downloads: the keys of the dict it returns, in order
list_downloads ==
    /\ loop = None
    /\ listing' = sorted_downloads
    /\ resp' = 200
    /\ UNCHANGED <<now, downloads, cancel_downloads, downloads_lock, loop, ntasks,
                   task, folders, accepted, call>>

\* DELETE /downloads/{download_id}
clear_download(download_id) ==
    /\ loop = None
    /\ IF download_id \in DOMAIN downloads
       THEN /\ downloads' = Delete(download_id)
            /\ accepted' = accepted \ {download_id}
            /\ resp' = 200
       ELSE /\ resp' = 404
            /\ UNCHANGED <<downloads, accepted>>
    /\ UNCHANGED <<listing, call>>
    /\ UNCHANGED <<now, cancel_downloads, downloads_lock, loop, ntasks, task, folders>>

\* POST /downloads/{download_id}/cancel: "with downloads_lock:" entered
cancel_acquire(download_id) ==
    /\ loop = None
    /\ downloads_lock = Free
    /\ downloads_lock' = EventLoop
    /\ loop' = <<"cancel", download_id>>
    /\ UNCHANGED <<listing, call>>
    /\ UNCHANGED <<now, downloads, cancel_downloads, resp, ntasks, task, folders,
                   accepted>>

CancelCodeOnlyCompletedOrError(download_id) ==
    IF download_id \notin DOMAIN downloads THEN 404
    ELSE IF downloads[download_id].status \in {"completed", "error"} THEN 400
    ELSE 200

\* lines 479-484: the status code cancel_download answers with
CancelCode(download_id) ==
    IF download_id \notin DOMAIN downloads THEN 404
    ELSE IF downloads[download_id].status \notin {"downloading", "queued"} THEN 400
    ELSE 200

\* cancel_download marking the id before it looks at the record
cancel_download_marking_first ==
    /\ loop # None
    /\ LET download_id == loop[2]
           code == CancelCode(download_id)
       IN  /\ cancel_downloads' = cancel_downloads \cup {download_id}
           /\ IF code = 200
              THEN /\ downloads' = [downloads EXCEPT ![download_id].status = "cancelling"]
                   /\ accepted' =
                        IF \A w \in WorkersOf(download_id) : NothingFinished(w)
                        THEN accepted \cup {download_id}
                        ELSE accepted
              ELSE UNCHANGED <<downloads, accepted>>
           /\ resp' = code
    /\ downloads_lock' = Free
    /\ loop' = None
    /\ UNCHANGED <<listing, call>>
    /\ UNCHANGED <<now, ntasks, task, folders>>

\* the body of the with block of cancel_download, and its exit
cancel_download ==
    /\ loop # None
    /\ LET download_id == loop[2]
           code == CancelCode(download_id)
       IN  /\ IF code = 200
              THEN /\ cancel_downloads' = cancel_downloads \cup {download_id}
                   /\ downloads' = [downloads EXCEPT ![download_id].status = "cancelling"]
                   /\ accepted' =
                        IF \A w \in WorkersOf(download_id) : NothingFinished(w)
                        THEN accepted \cup {download_id}
                        ELSE accepted
              ELSE UNCHANGED <<cancel_downloads, downloads, accepted>>
           /\ resp' = code
    /\ downloads_lock' = Free
    /\ loop' = None
    /\ UNCHANGED <<listing, call>>
    /\ UNCHANGED <<now, ntasks, task, folders>>

\* ------------------------------------------------- perform_download (worker)
\* the locals of the try block, dead once it is left
Leave(w, pc) ==
    [task EXCEPT ![w].pc = pc, ![w].download_list = FALSE, ![w].bytes = 0,
                 ![w].items = 0, ![w].skipped = 0, ![w].failed = 0,
                 ![w].folder = None]

\* raise Exception(msg) inside the try block of worker w
Raise(w, msg) == [Leave(w, "except") EXCEPT ![w].err = msg]

Goto(w, pc) == [task EXCEPT ![w].pc = pc]

\* "with downloads_lock:" entered by worker w at position `at`
Acquire(w, at, locked) ==
    /\ task[w].pc = at
    /\ downloads_lock = Free
    /\ downloads_lock' = Worker(w)
    /\ task' = Goto(w, locked)
    /\ UNCHANGED <<listing, call>>
    /\ UNCHANGED <<now, downloads, cancel_downloads, loop, resp, ntasks, folders,
                   accepted>>

\* line 309
start_acquire(w) == Acquire(w, "queued", "start_locked")

\* line 310: downloads[download_id]["status"] = "downloading"
start_download(w) ==
    /\ task[w].pc = "start_locked"
    /\ downloads_lock' = Free
    /\ IF task[w].id \in DOMAIN downloads
       THEN /\ downloads' = [downloads EXCEPT ![task[w].id].status = "downloading"]
            /\ task' = Goto(w, IF task[w].download_list THEN "probe" ELSE "engine")
       ELSE /\ task' = Raise(w, KeyErrorMsg("dl_id"))
            /\ UNCHANGED downloads
    /\ UNCHANGED <<listing, call>>
    /\ UNCHANGED <<now, cancel_downloads, loop, resp, ntasks, folders, accepted>>

\* lines 317-318: the metadata probe of a playlist fails
probe_raise(w, msg) ==
    /\ task[w].pc = "probe"
    /\ task' = Raise(w, msg)
    /\ UNCHANGED <<listing, call>>
    /\ UNCHANGED <<now, downloads, cancel_downloads, downloads_lock, loop, resp,
                   ntasks, folders, accepted>>

\* lines 318-333: the probe returns, the folder name is resolved
resolve_folder(w, playlist_title) ==
    /\ task[w].pc = "probe"
    /\ task' = [task EXCEPT ![w].pc = "mkdir",
                            ![w].folder = get_unique_folder_name(
                                              folders, BaseFolderName(playlist_title))]
    /\ UNCHANGED <<listing, call>>
    /\ UNCHANGED <<now, downloads, cancel_downloads, downloads_lock, loop, resp,
                   ntasks, folders, accepted>>

\* line 334: output_path.mkdir(exist_ok=True)
make_folder(w) ==
    /\ task[w].pc = "mkdir"
    /\ folders' = folders \cup {task[w].folder}
    /\ task' = Goto(w, "engine")
    /\ UNCHANGED <<listing, call>>
    /\ UNCHANGED <<now, downloads, cancel_downloads, downloads_lock, loop, resp,
                   ntasks, accepted>>

\* items the engine fetches for worker w: playlist_items = '1' for a single video
ItemLimit(w) == IF task[w].download_list THEN MaxItems ELSE 1

\* int(downloaded_bytes / total_bytes * 100): the integer part of the quotient
Percent(downloaded_bytes, total_bytes) == (downloaded_bytes * 100) \div total_bytes

\* update_progress(download_id, d) with d['status'] == 'downloading'; d is
\* [has_total, total_bytes, downloaded_bytes]; the result is <<downloads', raised>>
update_progress(download_id, d) ==
    IF ~d.has_total THEN <<downloads, KeyErrorMsg("total_bytes")>>
    ELSE IF d.total_bytes > 0
    THEN IF download_id \in DOMAIN downloads
         THEN <<[downloads EXCEPT ![download_id].progress =
                    Percent(d.downloaded_bytes, d.total_bytes)], None>>
         ELSE <<downloads, KeyErrorMsg("dl_id")>>
    ELSE <<downloads, None>>

\* update_progress(download_id, d) with d['status'] == 'finished'
update_finished(download_id) ==
    IF download_id \in DOMAIN downloads
    THEN <<[downloads EXCEPT ![download_id].progress = 100], None>>
    ELSE <<downloads, KeyErrorMsg("dl_id")>>

ProgressEvents(w) ==
    {[has_total |-> h, total_bytes |-> t, downloaded_bytes |-> b] :
        h \in BOOLEAN, t \in {0, MaxBytes}, b \in task[w].bytes..MaxBytes}

\* the engine calls the first progress hook with an in-progress event
engine_progress(w, d) ==
    /\ task[w].pc = "engine"
    /\ task[w].items + task[w].skipped < ItemLimit(w)
    /\ LET r == update_progress(task[w].id, d)
       IN  /\ downloads' = r[1]
           /\ task' = IF r[2] # None
                      THEN Raise(w, r[2])
                      ELSE [task EXCEPT ![w].pc = "hook",
                                        ![w].bytes = d.downloaded_bytes]
    /\ UNCHANGED <<listing, call>>
    /\ UNCHANGED <<now, cancel_downloads, downloads_lock, loop, resp, ntasks,
                   folders, accepted>>

\* the engine calls the first progress hook with the finished event of an item
engine_finished(w) ==
    /\ task[w].pc = "engine"
    /\ task[w].items + task[w].skipped < ItemLimit(w)
    /\ LET r == update_finished(task[w].id)
       IN  /\ downloads' = r[1]
           /\ task' = IF r[2] # None
                      THEN Raise(w, r[2])
                      ELSE [task EXCEPT ![w].pc = "hook", ![w].bytes = 0,
                                        ![w].items = task[w].items + 1]
    /\ UNCHANGED <<listing, call>>
    /\ UNCHANGED <<now, cancel_downloads, downloads_lock, loop, resp, ntasks,
                   folders, accepted>>

\* ignoreerrors: the engine logs an error for an item of a playlist it cannot
\* fetch and goes on; the item is a None entry of the result
engine_skip(w, msg) ==
    /\ task[w].pc = "engine"
    /\ task[w].download_list
    /\ task[w].items + task[w].skipped < ItemLimit(w)
    /\ task[w].skipped < MaxSkipped
    /\ task' = [task EXCEPT ![w].bytes = 0,
                            ![w].skipped = task[w].skipped + 1,
                            ![w].failed = PlaylistLogger_error(task[w].failed, msg)]
    /\ UNCHANGED <<listing, call>>
    /\ UNCHANGED <<now, downloads, cancel_downloads, downloads_lock, loop, resp,
                   ntasks, folders, accepted>>

\* line 391: the second progress hook enters check_cancel
hook_acquire(w) == Acquire(w, "hook", "hook_locked")

\* check_cancel going back to the engine without leaving its with block
check_cancel_keeping_lock(w) ==
    /\ task[w].pc = "hook_locked"
    /\ downloads_lock' = IF task[w].id \in cancel_downloads THEN Free ELSE Worker(w)
    /\ task' = IF task[w].id \in cancel_downloads
               THEN Raise(w, CancelMsg)
               ELSE Goto(w, "engine")
    /\ UNCHANGED <<listing, call>>
    /\ UNCHANGED <<now, downloads, cancel_downloads, loop, resp, ntasks, folders,
                   accepted>>

\* lines 392-398: check_cancel and the throw of the cancellation hook
check_cancel(w) ==
    /\ task[w].pc = "hook_locked"
    /\ downloads_lock' = Free
    /\ task' = IF task[w].id \in cancel_downloads
               THEN Raise(w, CancelMsg)
               ELSE Goto(w, "engine")
    /\ UNCHANGED <<listing, call>>
    /\ UNCHANGED <<now, downloads, cancel_downloads, loop, resp, ntasks, folders,
                   accepted>>

\* line 402: extract_info raises
engine_raise(w, msg) ==
    /\ task[w].pc = "engine"
    /\ task' = Raise(w, msg)
    /\ UNCHANGED <<listing, call>>
    /\ UNCHANGED <<now, downloads, cancel_downloads, downloads_lock, loop, resp,
                   ntasks, folders, accepted>>

\* line 402 returns; line 418 or 429 enters the with block
engine_return(w) ==
    /\ task[w].pc = "engine"
    /\ task[w].items >= (IF task[w].download_list THEN 0 ELSE 1)
    /\ task[w].bytes = 0
    /\ downloads_lock = Free
    /\ downloads_lock' = Worker(w)
    /\ task' = [task EXCEPT ![w].pc = "success_locked", ![w].folder = None]
    /\ UNCHANGED <<listing, call>>
    /\ UNCHANGED <<now, downloads, cancel_downloads, loop, resp, ntasks, folders,
                   accepted>>

ResultTitles == {<<"S", "o", "n", "g">>}

\* lines 414-416: status_msg
status_msg(successful_count, failed_count) ==
    <<"Downloaded", " ">> \o Decimal(successful_count) \o <<" ", "videos">>
        \o IF failed_count > 0
           THEN <<" ", "(">> \o Decimal(failed_count)
                    \o <<" ", "unavailable", " ", "videos", " ", "skipped", ")">>
           ELSE <<>>

\* lines 419-425 and 430-435: downloads[download_id].update({...})
record_completed(w, title) ==
    /\ task[w].pc = "success_locked"
    /\ downloads_lock' = Free
    /\ IF task[w].id \in DOMAIN downloads
       THEN /\ downloads' =
                   [downloads EXCEPT
                       ![task[w].id].status = "completed",
                       ![task[w].id].title = title,
                       ![task[w].id].progress = 100,
                       ![task[w].id].message =
                           IF task[w].download_list
                           THEN status_msg(task[w].items, task[w].failed)
                           ELSE @]
            /\ accepted' = accepted \ {task[w].id}
            /\ task' = Leave(w, "finally")
       ELSE /\ task' = Raise(w, KeyErrorMsg("dl_id"))
            /\ UNCHANGED <<downloads, accepted>>
    /\ UNCHANGED <<listing, call>>
    /\ UNCHANGED <<now, cancel_downloads, loop, resp, ntasks, folders>>

\* line 444
except_acquire(w) == Acquire(w, "except", "except_locked")

\* the status the except handler stores
FailureStatus(error_msg) == IF is_cancelled(error_msg) THEN "cancelled" ELSE "error"

\* the except handler without its status update
record_failure_discard_only(w) ==
    /\ task[w].pc = "except_locked"
    /\ downloads_lock' = Free
    /\ cancel_downloads' = cancel_downloads \ {task[w].id}
    /\ task' = [task EXCEPT ![w].pc = "finally", ![w].err = None]
    /\ UNCHANGED <<listing, call>>
    /\ UNCHANGED <<now, downloads, loop, resp, ntasks, folders, accepted>>

\* record_failure with a lock that the KeyError does not release
record_failure_keeping_lock(w) ==
    /\ task[w].pc = "except_locked"
    /\ IF task[w].id \in DOMAIN downloads
       THEN /\ downloads_lock' = Free
            /\ downloads' = [downloads EXCEPT
                                ![task[w].id].status = FailureStatus(task[w].err),
                                ![task[w].id].error = task[w].err]
            /\ cancel_downloads' = cancel_downloads \ {task[w].id}
            /\ accepted' = accepted \ {task[w].id}
            /\ task' = [task EXCEPT ![w].pc = "finally", ![w].err = None]
       ELSE /\ downloads_lock' = Worker(w)
            /\ task' = [task EXCEPT ![w].pc = "finally", ![w].err = None,
                                    ![w].escaped = TRUE]
            /\ UNCHANGED <<downloads, cancel_downloads, accepted>>
    /\ UNCHANGED <<listing, call>>
    /\ UNCHANGED <<now, loop, resp, ntasks, folders>>

\* lines 445-451; a KeyError of the update leaves the handler before the discard
record_failure(w) ==
    /\ task[w].pc = "except_locked"
    /\ downloads_lock' = Free
    /\ IF task[w].id \in DOMAIN downloads
       THEN /\ downloads' = [downloads EXCEPT
                                ![task[w].id].status = FailureStatus(task[w].err),
                                ![task[w].id].error = task[w].err]
            /\ cancel_downloads' = cancel_downloads \ {task[w].id}
            /\ accepted' = accepted \ {task[w].id}
            /\ task' = [task EXCEPT ![w].pc = "finally", ![w].err = None]
       ELSE /\ task' = [task EXCEPT ![w].pc = "finally", ![w].err = None,
                                    ![w].escaped = TRUE]
            /\ UNCHANGED <<downloads, cancel_downloads, accepted>>
    /\ UNCHANGED <<listing, call>>
    /\ UNCHANGED <<now, loop, resp, ntasks, folders>>

\* line 455
finally_acquire(w) == Acquire(w, "finally", "finally_locked")

\* the finally block without its discard
finally_without_discard(w) ==
    /\ task[w].pc = "finally_locked"
    /\ downloads_lock' = Free
    /\ task' = [task EXCEPT ![w].pc = IF task[w].escaped THEN "crashed" ELSE "done",
                            ![w].escaped = FALSE]
    /\ UNCHANGED <<listing, call>>
    /\ UNCHANGED <<now, downloads, cancel_downloads, loop, resp, ntasks, folders,
                   accepted>>

\* line 456, then the worker returns or the escaped exception leaves it
finally_discard(w) ==
    /\ task[w].pc = "finally_locked"
    /\ downloads_lock' = Free
    /\ cancel_downloads' = cancel_downloads \ {task[w].id}
    /\ task' = [task EXCEPT ![w].pc = IF task[w].escaped THEN "crashed" ELSE "done",
                            ![w].escaped = FALSE]
    /\ UNCHANGED <<listing, call>>
    /\ UNCHANGED <<now, downloads, loop, resp, ntasks, folders, accepted>>

\* ------------------------------------------------------------ specification
Next ==
    \/ \E url \in Urls, download_list \in BOOLEAN, ms \in now..MaxClock :
          download_youtube(url, download_list, ms)
    \/ \E d \in Ids : get_download_status(d)
    \/ \E d \in Ids : clear_download(d)
    \/ \E d \in Ids : cancel_acquire(d)
    \/ cancel_download
    \/ \E w \in Tasks : start_acquire(w)
    \/ \E w \in Tasks : start_download(w)
    \/ \E w \in Tasks, msg \in EngineMsgs : probe_raise(w, msg)
    \/ \E w \in Tasks, t \in PlaylistTitles : resolve_folder(w, t)
    \/ \E w \in Tasks : make_folder(w)
    \/ \E w \in Tasks, msg \in EngineMsgs : engine_raise(w, msg)
    \/ \E w \in Tasks : \E d \in ProgressEvents(w) : engine_progress(w, d)
    \/ \E w \in Tasks : engine_finished(w)
    \/ \E w \in Tasks, msg \in SkipMsgs : engine_skip(w, msg)
    \/ \E w \in Tasks : hook_acquire(w)
    \/ \E w \in Tasks : check_cancel(w)
    \/ \E w \in Tasks : engine_return(w)
    \/ \E w \in Tasks, t \in ResultTitles : record_completed(w, t)
    \/ \E w \in Tasks : except_acquire(w)
    \/ \E w \in Tasks : record_failure(w)
    \/ \E w \in Tasks : finally_acquire(w)
    \/ \E w \in Tasks : finally_discard(w)

Spec == Init /\ [][Next]_vars

\* ------------------------------------------- the folder-name helpers alone
Mix == <<"M", "i", "x">>

\* names of entries download_path may hold, and names asked for
FolderNames ==
    {Mix, Numbered(Mix, 2), Numbered(Mix, 3), Numbered(Numbered(Mix, 2), 2),
     <<"M", "i">>}
Candidates == {Mix, Numbered(Mix, 2), <<"M", "i">>, <<"M", "i", "x", "2">>}

\* names given to the sanitizer: a prefix, n letters, one more character, a suffix
Affixes == {<<>>, <<".">>, <<" ">>, <<".", " ">>, <<"?">>, <<"b">>}
Middles == {<<>>} \cup {<<c>> : c \in InvalidChars} \cup {<<".">>, <<" ">>}
Lengths == (0..1) \cup ((MaxFolderLen - MaxOver)..(MaxFolderLen + MaxOver))
Letters(n) == [i \in 1..n |-> "a"]
Names ==
    {pre \o Letters(n) \o mid \o suf :
        pre \in Affixes, n \in Lengths, mid \in Middles, suf \in Affixes}

\* a call of helper fn with the argument name, not yet run
Called(fn, name) == [NoCall EXCEPT !.fn = fn, !.name = name]

FolderInit ==
    /\ Loaded
    /\ \/ /\ folders = {}
          /\ call \in {Called("sanitize_folder_name", name) : name \in Names}
       \/ /\ folders \in {e \in SUBSET FolderNames : Cardinality(e) < MaxFolders}
          /\ call \in {Called("get_unique_folder_name", name) : name \in Candidates}

\* sanitize_folder_name(name) runs
call_sanitize ==
    /\ call.fn = "sanitize_folder_name"
    /\ ~call.returned
    /\ call' = [call EXCEPT !.returned = TRUE,
                            !.result = sanitize_folder_name(call.name)]
    /\ UNCHANGED <<now, downloads, cancel_downloads, downloads_lock, loop, resp,
                   ntasks, task, folders, accepted, listing>>

\* get_unique_folder_name(download_path, folder_name) runs
call_unique ==
    /\ call.fn = "get_unique_folder_name"
    /\ ~call.returned
    /\ call' = [call EXCEPT !.returned = TRUE, !.existing = folders,
                            !.result = get_unique_folder_name(folders, call.name)]
    /\ UNCHANGED <<now, downloads, cancel_downloads, downloads_lock, loop, resp,
                   ntasks, task, folders, accepted, listing>>

\* line 334: the caller creates the folder it was given the name of; then the
\* same name is asked for again
call_mkdir ==
    /\ call.fn = "get_unique_folder_name"
    /\ call.returned
    /\ Cardinality(folders) < MaxFolders
    /\ folders' = folders \cup {call.result}
    /\ call' = Called(call.fn, call.name)
    /\ UNCHANGED <<now, downloads, cancel_downloads, downloads_lock, loop, resp,
                   ntasks, task, accepted, listing>>

FolderNext == call_sanitize \/ call_unique \/ call_mkdir

FolderSpec == FolderInit /\ [][FolderNext]_vars

\* the handlers and the start of the workers, with the listing
ListNext ==
    \/ \E url \in Urls, download_list \in BOOLEAN, ms \in now..MaxClock :
          download_youtube(url, download_list, ms)
    \/ \E d \in Ids : clear_download(d)
    \/ \E d \in Ids : cancel_acquire(d)
    \/ cancel_download
    \/ \E w \in Tasks : start_acquire(w)
    \/ \E w \in Tasks : start_download(w)
    \/ list_downloads

ListSpec == Init /\ [][ListNext]_vars

\* one step of worker w
WorkerStep(w) ==
    \/ start_acquire(w)
    \/ start_download(w)
    \/ \E msg \in EngineMsgs : probe_raise(w, msg)
    \/ \E t \in PlaylistTitles : resolve_folder(w, t)
    \/ make_folder(w)
    \/ \E d \in ProgressEvents(w) : engine_progress(w, d)
    \/ engine_finished(w)
    \/ \E msg \in SkipMsgs : engine_skip(w, msg)
    \/ hook_acquire(w)
    \/ check_cancel(w)
    \/ \E msg \in EngineMsgs : engine_raise(w, msg)
    \/ engine_return(w)
    \/ \E t \in ResultTitles : record_completed(w, t)
    \/ except_acquire(w)
    \/ record_failure(w)
    \/ finally_acquire(w)
    \/ finally_discard(w)

\* ------------------------------------------------------------------ claims
Status(d) == downloads[d].status
Kept == DOMAIN downloads \cap DOMAIN downloads'
\* the cancel handler answers its request for job id d in this step
CancelAnswers(d) == loop = <<"cancel", d>> /\ loop' = None

AllowedTransitions ==
    {<<"queued", "downloading">>, <<"downloading", "cancelling">>,
     <<"downloading", "completed">>, <<"downloading", "error">>,
     <<"cancelling", "cancelled">>, <<"queued", "cancelling">>}

\* C1: every change of a job's status made by a worker or by a cancel request
\* (any step but a submission) is one of queued->downloading,
\* downloading->cancelling, downloading->completed, downloading->error,
\* cancelling->cancelled or queued->cancelling.
C1_ForwardTransitions ==
    [][ntasks' = ntasks =>
         \A d \in Kept :
            Status(d)' # Status(d)
                => <<Status(d), Status(d)'>> \in AllowedTransitions]_vars

\* C2: a cancel request on a job that is queued, downloading or already
\* cancelling succeeds (200).
C2_CancelIdempotent ==
    [][\A d \in DOMAIN downloads :
         CancelAnswers(d) /\ Status(d) \in NonTerminal => resp' = 200]_vars

\* C3: a job whose cancel request was accepted before its engine reported any
\* finished event gets no final status other than cancelled.
C3_AcceptedCancelWins ==
    [][\A d \in accepted \cap Kept :
         Status(d) \in NonTerminal /\ Status(d)' \in Terminal
             => Status(d)' = "cancelled"]_vars

\* C4: a cancel request on a job whose status is completed, cancelled or error
\* is answered 400 (InvalidState).
C4_TerminalCancelRejected ==
    [][\A d \in DOMAIN downloads :
         CancelAnswers(d) /\ Status(d) \in Terminal => resp' = 400]_vars

\* the cancel handler holds the lock on a job that is already final
C4_Witness ==
    \E d \in DOMAIN downloads :
        /\ loop = <<"cancel", d>>
        /\ downloads_lock = EventLoop
        /\ Status(d) \in Terminal

\* C5: for a job id that is not in the registry, the status query and the
\* cancel request are both answered 404 (NotFound).
C5_UnknownIdNotFound ==
    [][\A d \in Ids \ DOMAIN downloads :
         /\ get_download_status(d) => resp' = 404
         /\ CancelAnswers(d) => resp' = 404]_vars

\* the cancel handler is inside for an id that was submitted and then cleared,
\* after a request that was answered 404
C5_Witness ==
    \E d \in Ids \ DOMAIN downloads :
        /\ loop = <<"cancel", d>>
        /\ WorkersOf(d) # {}
        /\ resp = 404

\* a worker that has not returned
Live(w) == task[w].pc \notin {"unused", "done", "crashed"}

\* worker w can take a step, or waits for the lock while its holder can take one
CanProceed(w) ==
    \/ ENABLED WorkerStep(w)
    \/ downloads_lock = EventLoop /\ ENABLED cancel_download
    \/ \E v \in Tasks \ {w} : downloads_lock = Worker(v) /\ ENABLED WorkerStep(v)

C7_TerminalAbsorbing ==
    [][\A d \in Kept : Status(d) \in Terminal => Status(d)' = Status(d)]_vars

\* C8: outside a submission, the progress of a job served by one worker stays
\* in 0..100 and never decreases.
C8_ProgressMonotone ==
    [][ntasks' = ntasks =>
         \A d \in Kept :
            Cardinality(WorkersOf(d)) = 1 =>
               /\ downloads[d].progress' \in 0..100
               /\ downloads[d].progress' >= downloads[d].progress]_vars

\* worker w has created its playlist folder
HasFolder(w) == task[w].folder # None /\ task[w].pc # "mkdir"

\* C9: two playlist jobs (of different ids) never use the same folder.
C9_FoldersDistinct ==
    \A v, w \in Tasks :
        task[v].id # task[w].id /\ HasFolder(v) /\ HasFolder(w)
            => task[v].folder # task[w].folder

\* C10: the id given to an accepted submission is the id of no tracked job.
C10_FreshId ==
    [][ntasks' = ntasks + 1 => task'[ntasks'].id \notin DOMAIN downloads]_vars

\* worker w leaves the with block it entered after its engine run returned
Succeeds(w) == task[w].pc = "success_locked" /\ task'[w].pc # "success_locked"

\* what C11 says of one step
C11_Step ==
    /\ \A w \in Tasks :
          Succeeds(w) /\ task[w].id \in DOMAIN downloads
              => /\ task[w].id \in DOMAIN downloads'
                 /\ downloads'[task[w].id].status = "completed"
                 /\ downloads'[task[w].id].progress = 100
                 /\ downloads'[task[w].id].title # None
    /\ \A d \in DOMAIN downloads' :
          downloads'[d].title # None => downloads'[d].status = "completed"

\* C11: when the engine run of a tracked job has returned, the worker stores
\* status completed, progress 100 and a title; and in every state a job that
\* has a title has status completed.
C11_CompletedWithTitle == [][C11_Step]_vars

\* C12: when the engine run of a tracked batch job returns with k items fetched
\* and m items skipped, the worker stores status completed and the message
\* that reports k downloaded and m skipped.
C12_BatchMessage ==
    [][\A w \in Tasks :
         Succeeds(w) /\ task[w].download_list /\ task[w].id \in DOMAIN downloads
             => /\ task[w].id \in DOMAIN downloads'
                /\ downloads'[task[w].id].status = "completed"
                /\ downloads'[task[w].id].message =
                       status_msg(task[w].items, task[w].skipped)]_vars

\* what C13 says of one step
C13_Step ==
    list_downloads
        => /\ {listing'[i] : i \in DOMAIN listing'} = DOMAIN downloads
           /\ Len(listing') = Cardinality(DOMAIN downloads)
           /\ \A i, j \in DOMAIN listing' :
                 i < j => downloads[listing'[i]].created_at
                              >= downloads[listing'[j]].created_at

\* C13: the listing returns every job of the registry once, a job created
\* later before a job created earlier.
C13_ListingOrdered == [][C13_Step]_vars

\* two jobs are tracked and have been listed
C13_Witness ==
    /\ Len(listing) = 2
    /\ {listing[1], listing[2]} = DOMAIN downloads

\* C14: get_unique_folder_name returns the name asked for when download_path
\* has no entry of that name, otherwise "name (k)" for the least k >= 2 that
\* is the name of no entry; the name returned is never that of an entry.
C14_UniqueName ==
    call.fn = "get_unique_folder_name" /\ call.returned =>
        /\ call.result \notin call.existing
        /\ call.name \notin call.existing => call.result = call.name
        /\ call.name \in call.existing =>
              \E k \in 2..(Cardinality(call.existing) + 1) :
                  /\ call.result = Numbered(call.name, k)
                  /\ \A j \in 2..(k - 1) : Numbered(call.name, j) \in call.existing

\* "Mix" and "Mix (2)" exist and "Mix" was asked for
C14_Witness ==
    /\ call.fn = "get_unique_folder_name"
    /\ call.returned
    /\ call.name = Mix
    /\ {Mix, Numbered(Mix, 2)} \subseteq call.existing
    /\ call.result = Numbered(Mix, 3)

\* a name the sanitizer has nothing to change in
Clean(name) ==
    /\ \A i \in DOMAIN name : name[i] \notin InvalidChars
    /\ name # <<>> => name[1] \notin {".", " "} /\ name[Len(name)] \notin {".", " "}
    /\ Len(name) <= MaxFolderLen

\* C15: the result of sanitize_folder_name has none of the characters
\* < > : " / \ | ? *, is a stretch of the name given with each of them replaced
\* by one underscore, is at most 100 long, and is the name given when that
\* name is clean.
C15_Sanitized ==
    call.fn = "sanitize_folder_name" /\ call.returned =>
        /\ \A i \in DOMAIN call.result : call.result[i] \notin InvalidChars
        /\ \E a \in 0..(Len(call.name) - Len(call.result)) :
              \A i \in DOMAIN call.result :
                 call.result[i] = IF call.name[a + i] \in InvalidChars
                                  THEN "_"
                                  ELSE call.name[a + i]
        /\ Len(call.result) <= MaxFolderLen
        /\ Clean(call.name) => call.result = call.name

\* a name with a hostile character, longer than the limit, was sanitized
C15_Witness ==
    /\ call.fn = "sanitize_folder_name"
    /\ call.returned
    /\ Len(call.name) > MaxFolderLen
    /\ \E i \in DOMAIN call.name : call.name[i] \in InvalidChars
    /\ \E i \in DOMAIN call.result : call.result[i] = "_"
    /\ Len(call.result) = MaxFolderLen

\* C16: no worker is left by an exception: every worker that has returned
\* has returned normally.
C16_NoEscape == \A w \in Tasks : task[w].pc # "crashed"

\* the step is taken by worker w, which runs already
StepOf(w) == task[w].pc # "unused" /\ task'[w] # task[w]

\* what C17 says of one step
C17_Step ==
    downloads' # downloads \/ cancel_downloads' # cancel_downloads
        => IF \E w \in Tasks : StepOf(w)
           THEN \E w \in Tasks : StepOf(w) /\ downloads_lock = Worker(w)
           ELSE downloads_lock = EventLoop

\* C17: every step that writes the registry or the cancellation set is taken
\* by a thread that holds downloads_lock.
C17_LockedAccess == [][C17_Step]_vars

\* C18: a job id all of whose workers have returned, normally or not, is not
\* in the cancellation set (so no request has put it there again).
C18_MarkerRemoved ==
    \A d \in Ids :
        WorkersOf(d) # {} /\ (\A w \in WorkersOf(d) : Exited(w))
            => d \notin cancel_downloads

\* the worker of a job has returned after a failure of the engine and a cancel
\* request made since was rejected
C18_Witness ==
    \E d \in DOMAIN downloads :
        /\ WorkersOf(d) # {}
        /\ \A w \in WorkersOf(d) : Exited(w)
        /\ Status(d) = "error"
        /\ resp = 400
        /\ cancel_downloads = {}

\* what C19 says of one step
C19_Step ==
    \A w \in Tasks : \A d \in ProgressEvents(w) :
        (~d.has_total \/ d.total_bytes = 0) /\ engine_progress(w, d)
            => downloads' = downloads /\ task'[w].pc # "except"

\* C19: an in-progress event whose total is zero or absent changes no job
\* record and raises nothing in the worker.
C19_NoTotalNoChange == [][C19_Step]_vars

\* the positions of a worker inside a with block of downloads_lock
LockedAt ==
    {"start_locked", "hook_locked", "success_locked", "except_locked",
     "finally_locked"}

\* worker w leaves a with block: a step of its own code, not of the engine
Release(w) ==
    \/ start_download(w)
    \/ check_cancel(w)
    \/ \E t \in ResultTitles : record_completed(w, t)
    \/ record_failure(w)
    \/ finally_discard(w)

\* C20: a worker that holds downloads_lock is inside one of its with blocks,
\* around an access of the registry or of the cancellation set, never where
\* the probe or the fetch runs, and leaves the block by a step of its own; so
\* no request waits for an engine run.
C20_LockNotHeldInEngine ==
    \A w \in Tasks :
        downloads_lock = Worker(w)
            => task[w].pc \in LockedAt /\ ENABLED Release(w)

\* a cancel request is inside its with block while the engine of the job runs,
\* in the middle of an item
C20_Witness ==
    \E w \in Tasks :
        /\ task[w].pc = "engine"
        /\ task[w].bytes > 0
        /\ loop = <<"cancel", task[w].id>>
        /\ downloads_lock = EventLoop

\* worker w leaves the with block of its except handler
Fails(w) == task[w].pc = "except_locked" /\ task'[w].pc # "except_locked"

\* C21: a failure of a tracked job that the cancellation hook did not throw
\* is stored as status error, whatever its message; so cancelled is stored
\* only for a failure thrown by the hook, after an accepted cancel request.
C21_CancelledOnlyByRequest ==
    [][\A w \in Tasks :
         Fails(w) /\ task[w].id \in DOMAIN downloads /\ task[w].err # CancelMsg
             => downloads'[task[w].id].status = "error"]_vars

\* what C22 says of one step
C22_Step ==
    \A d \in Ids :
        /\ cancel_acquire(d)
              => downloads' = downloads /\ cancel_downloads' = cancel_downloads
        /\ CancelAnswers(d) /\ resp' \in {400, 404}
              => downloads' = downloads /\ cancel_downloads' = cancel_downloads

\* C22: a cancel request that is answered 404 or 400 changes neither the
\* registry nor the cancellation set, in none of its steps.
C22_RejectedCancelNoChange == [][C22_Step]_vars

\* the cancel handler is about to reject a request for a job that is
\* cancelling and marked
C22_Witness ==
    \E d \in DOMAIN downloads :
        /\ loop = <<"cancel", d>>
        /\ downloads_lock = EventLoop
        /\ Status(d) = "cancelling"
        /\ d \in cancel_downloads

\* the positions at which the next step of a worker is the entry of a with
\* block
WaitAt == {"queued", "hook", "except", "finally"}

\* worker w enters a with block it waits at
AcquireStep(w) ==
    start_acquire(w) \/ hook_acquire(w) \/ except_acquire(w) \/ finally_acquire(w)

\* the handlers and the workers of single videos: every step that touches
\* downloads_lock, with two workers and the event loop competing for it
LockNext ==
    \/ \E url \in Urls, ms \in now..MaxClock : download_youtube(url, FALSE, ms)
    \/ \E d \in Ids : get_download_status(d)
    \/ \E d \in Ids : clear_download(d)
    \/ \E d \in Ids : cancel_acquire(d)
    \/ cancel_download
    \/ \E w \in Tasks : start_acquire(w)
    \/ \E w \in Tasks : start_download(w)
    \/ \E w \in Tasks, msg \in EngineMsgs : engine_raise(w, msg)
    \/ \E w \in Tasks : \E d \in ProgressEvents(w) : engine_progress(w, d)
    \/ \E w \in Tasks : engine_finished(w)
    \/ \E w \in Tasks : hook_acquire(w)
    \/ \E w \in Tasks : check_cancel(w)
    \/ \E w \in Tasks : engine_return(w)
    \/ \E w \in Tasks, t \in ResultTitles : record_completed(w, t)
    \/ \E w \in Tasks : except_acquire(w)
    \/ \E w \in Tasks : record_failure(w)
    \/ \E w \in Tasks : finally_acquire(w)
    \/ \E w \in Tasks : finally_discard(w)

\* a thread inside a with block runs on to its end, and a thread that waits
\* for a lock that is free again and again gets it
LockFair ==
    /\ WF_vars(cancel_download)
    /\ \A w \in Tasks : WF_vars(Release(w)) /\ SF_vars(AcquireStep(w))

LockSpec == Init /\ [][LockNext]_vars /\ LockFair

\* the lock is held by exactly the threads that are inside a with block
C23_Inv ==
    /\ \A w \in Tasks : downloads_lock = Worker(w) <=> task[w].pc \in LockedAt
    /\ downloads_lock = EventLoop <=> loop # None

\* what C23 says of one step
C23_Step ==
    /\ \A w \in Tasks :
         downloads_lock = Worker(w) /\ downloads_lock' # Worker(w)
            => StepOf(w) /\ downloads_lock' = Free
    /\ downloads_lock = EventLoop /\ downloads_lock' # EventLoop
            => loop # None /\ loop' = None /\ downloads_lock' = Free
    /\ \A w \in Tasks :
         StepOf(w) /\ task[w].pc \in LockedAt
            => downloads_lock' = Free /\ task'[w].pc \notin LockedAt
    /\ downloads_lock' # downloads_lock /\ downloads_lock' # Free
            => downloads_lock = Free

\* every worker that waits for the lock gets it, and the lock is free again
\* and again for the event loop
C23_Live ==
    /\ \A w \in Tasks : (task[w].pc \in WaitAt) ~> (downloads_lock = Worker(w))
    /\ []<>(downloads_lock = Free)

C24_IdempotentStripped ==
    call.fn = "sanitize_folder_name" /\ call.returned =>
        /\ sanitize_folder_name(call.result) = call.result
        /\ call.result # <<>> =>
              /\ call.result[1] \notin {".", " "}
              /\ call.result[Len(call.result)] \notin {".", " "}

====
